---- MODULE Spec2Model ----
(***************************************************************************)
(* Verification model of package timeutil of chronicleprotocol/go-utils:   *)
(* the cron-like ScheduledTicker (parse, String, Next) and the Scheduler   *)
(* loop that delivers ticks on an unbuffered channel; and of FanOut of     *)
(* package chanutil, which copies the values of one channel to many.       *)
(*                                                                         *)
(* Strings are sequences of one-character strings.  A time.Time is a       *)
(* record [s |-> seconds since 1970-01-01 00:00:00 UTC, ns |-> nanosecond, *)
(* loc |-> location]; the locations are "UTC" and "CET".                   *)
(***************************************************************************)
EXTENDS Integers, Sequences, FiniteSets, TLC

VARIABLES
  \* ---- ScheduledTicker object and the calls made on it
  ticker,      \* the six field slices of the ScheduledTicker
  made,        \* TRUE once NewScheduledTicker has returned a ticker
  lastText,    \* text given to the last parse
  lastErr,     \* error returned by the last parse ("nil" for none)
  lastAt,      \* argument of the last Next call
  lastOut,     \* result of the last Next call
  unmarshals,  \* number of UnmarshalText calls made so far
  chain,       \* an argument of Next and what Next made of it, call by call
  \* ---- Scheduler, its goroutine, its callers and the clock
  provider,    \* the NextTick given to NewScheduler
  sctx,        \* s.ctx: "nil" or "ctx"
  cancelled,   \* whether the context has been cancelled
  pc,          \* where the scheduler goroutine is
  n,           \* the pending tick of the goroutine (seconds)
  deadline,    \* when the timer of the current sleep expires
  wake,        \* what woke the sleeping goroutine: "none", "timer", "ctx"
  now,         \* the clock (seconds)
  advances,    \* number of clock steps taken
  chClosed,    \* whether s.c is closed
  closes,      \* number of close(s.c) executed
  received,    \* what the consumer received from s.c, in order
  tickAts,     \* the Scheduler.Tick/TickAt calls made, in order
  lastStart,   \* the last Start call: what it found, was given and did
  launched,    \* number of `go s.scheduler()` executed
  seeds,       \* the arguments of the goroutine's calls of s.n.Next
  manualQ,     \* ManualTicker.Tick/TickAt callers blocked on t.c
  manualCalls, \* number of ManualTicker.Tick/TickAt calls made
  taken,       \* the ManualTicker calls that returned, in this order
  \* ---- FanOut, its goroutines, its producer and its consumers
  inClosed,    \* whether the producer has closed the input channel
  inRead,      \* number of values fanOutRoutine has received from the input
  foIn,        \* fo.in: "in", or "nil" once fanOutRoutine has ended
  foOut,       \* the keys of the map fo.out
  foPc,        \* where fanOutRoutine is
  foTodo,      \* the keys its loop over fo.out has yet to visit
  foCur,       \* the output it is sending to (0: none)
  outs         \* the outputs handed out, in the order of the calls

tickerVars ==
  <<ticker, made, lastText, lastErr, lastAt, lastOut, unmarshals, chain>>

schedVars ==
  <<provider, sctx, cancelled, pc, n, deadline, wake, now, advances, chClosed,
    closes, received, tickAts, lastStart, launched, seeds, manualQ, manualCalls,
    taken>>

fanVars == <<inClosed, inRead, foIn, foOut, foPc, foTodo, foCur, outs>>

vars == <<tickerVars, schedVars, fanVars>>

----------------------------------------------------------------------------
(* Program constants *)

secondsInMinute == 60
minutesInHour == 60
hoursInDay == 24
daysInWeek == 7
maxDaysInMonth == 31
monthsInYear == 12
\* scheduleMaxSleepTime = 15 * time.Minute, in seconds
scheduleMaxSleepTime == 15 * secondsInMinute
secondsInHour == minutesInHour * secondsInMinute
secondsInDay == hoursInDay * secondsInHour

(* Bounds of the model *)

\* Next gives up (NoReturn) once its candidate passes the end of this year.
HorizonYear == 2026
\* UnmarshalText calls on an existing ticker per behaviour.
MaxUnmarshal == 1
\* Steps of the clock per behaviour.
MaxAdvances == 1
\* Values the consumer receives from the tick channel per behaviour.
MaxRecv == 2
\* Scheduler.Tick/TickAt calls per behaviour.
MaxTickAt == 1
\* Goroutines a Scheduler may launch before the model stops Start.
MaxLaunch == 2
\* ManualTicker.Tick/TickAt calls per behaviour.
MaxManual == 2
\* Next calls in a row, each on the result of the one before.
MaxChain == 5
\* Output/OutputContext calls on a FanOut per behaviour.
MaxOutputs == 2
\* Values the producer sends on the input of a FanOut per behaviour.
MaxValues == 2

----------------------------------------------------------------------------
(* Calendar arithmetic of package time (proleptic Gregorian, UTC) *)

TimeIn(sec, nsec, loc) == [s |-> sec, ns |-> nsec, loc |-> loc]

Time(sec, nsec) == TimeIn(sec, nsec, "UTC")

NoTime == Time(-1, 0)

\* Days from 1970-01-01 to the civil date y-m-d; d may exceed the month.
DaysFromCivil(y, m, d) ==
  LET yy  == IF m <= 2 THEN y - 1 ELSE y
      era == yy \div 400
      yoe == yy - era * 400
      mp  == (m + 9) % 12
      doy == (153 * mp + 2) \div 5 + d - 1
      doe == yoe * 365 + yoe \div 4 - yoe \div 100 + doy
  IN  era * 146097 + doe - 719468

\* The civil date of day number z (days since 1970-01-01).
CivilFromDays(z) ==
  LET zz  == z + 719468
      era == zz \div 146097
      doe == zz - era * 146097
      yoe == (doe - doe \div 1460 + doe \div 36524 - doe \div 146096) \div 365
      doy == doe - (365 * yoe + yoe \div 4 - yoe \div 100)
      mp  == (5 * doy + 2) \div 153
      d   == doy - (153 * mp + 2) \div 5 + 1
      m   == IF mp < 10 THEN mp + 3 ELSE mp - 9
      y   == yoe + era * 400 + (IF m <= 2 THEN 1 ELSE 0)
  IN  [y |-> y, m |-> m, d |-> d]

\* The clock of Central Europe changes at 01:00 UTC on the last Sunday of
\* March and of October (both months have 31 days): the second of that
\* change in the year y.
Transition(y, m) ==
  (DaysFromCivil(y, m, 31) - ((DaysFromCivil(y, m, 31) + 4) % daysInWeek)) * secondsInDay
    + secondsInHour

\* the span [start, end) of the location's offset around the second `sec` of
\* a year whose clock changes at `spring` and at `autumn`
ZoneOfYear(y, sec, spring, autumn) ==
  IF sec < spring
    THEN [offset |-> secondsInHour, start |-> Transition(y - 1, 10), end |-> spring]
  ELSE IF sec < autumn
    THEN [offset |-> 2 * secondsInHour, start |-> spring, end |-> autumn]
  ELSE [offset |-> secondsInHour, start |-> autumn, end |-> Transition(y + 1, 3)]

\* the zone of Central Europe in force at the second `sec` of the year y
ZoneInYear(y, sec) == ZoneOfYear(y, sec, Transition(y, 3), Transition(y, 10))

\* the zone in force in the location at the second `sec`: its offset east of
\* UTC and the span it holds in
ZoneAt(loc, sec) ==
  IF loc = "UTC" THEN [offset |-> 0, start |-> sec, end |-> sec + 1]
  ELSE ZoneInYear(CivilFromDays(sec \div secondsInDay).y, sec)

\* the offsets a location has
ZoneOffsets(loc) == IF loc = "UTC" THEN {0} ELSE {secondsInHour, 2 * secondsInHour}

\* time.Date takes the zone in force at `unix`, the wall clock read as UTC;
\* if the second it leads to lies outside the span of that zone, the zone in
\* force there is taken instead
dateOffset(loc, unix, zone) ==
  IF zone.offset # 0 /\ (unix - zone.offset < zone.start \/ unix - zone.offset >= zone.end)
    THEN ZoneAt(loc, unix - zone.offset).offset
  ELSE zone.offset

dateUnix(loc, unix) == TimeIn(unix - dateOffset(loc, unix, ZoneAt(loc, unix)), 0, loc)

\* time.Date(y, m, d, h, mi, sec, 0, loc): out-of-range month and day are
\* normalised (month 13 is January of the next year, February 31 is
\* March 3 or 2); a wall clock that the location shows twice or never is
\* resolved as dateOffset says.
TimeDateIn(loc, y, m, d, h, mi, sec) ==
  dateUnix(loc, (DaysFromCivil(y + (m - 1) \div 12, ((m - 1) % 12) + 1, 1) + d - 1)
                  * secondsInDay
                + h * secondsInHour + mi * secondsInMinute + sec)

\* time.Date(y, m, d, h, mi, sec, 0, time.UTC)
TimeDate(y, m, d, h, mi, sec) == TimeDateIn("UTC", y, m, d, h, mi, sec)

\* the wall clock of the timestamp in its location, as seconds
LocalSec(at) == at.s + ZoneAt(at.loc, at.s).offset

DayNum(at) == LocalSec(at) \div secondsInDay

\* at.Date()
DateOf(at) == CivilFromDays(DayNum(at))

\* at.Clock()
HourOf(at) == (LocalSec(at) % secondsInDay) \div secondsInHour
MinuteOf(at) == (LocalSec(at) % secondsInHour) \div secondsInMinute
SecondOf(at) == LocalSec(at) % secondsInMinute

\* at.Weekday(): Sunday = 0; 1970-01-01 was a Thursday.
WeekdayOf(at) == (DayNum(at) + 4) % daysInWeek

\* at.Add(sec*time.Second + nsec), for |nsec| < 1e9
TimeAdd(at, sec, nsec) ==
  LET total == at.ns + nsec
  IN  IF total < 0 THEN TimeIn(at.s + sec - 1, total + 1000000000, at.loc)
      ELSE IF total >= 1000000000 THEN TimeIn(at.s + sec + 1, total - 1000000000, at.loc)
      ELSE TimeIn(at.s + sec, total, at.loc)

\* t.After(u)
TimeAfter(t, u) == t.s > u.s \/ (t.s = u.s /\ t.ns > u.ns)

----------------------------------------------------------------------------
(* Slices *)

\* len(xs) != 0 and some element equals x (the match loops)
Contains(xs, x) == \E i \in 1..Len(xs) : xs[i] = x

\* index of the first element greater than x, in slice order; 0 for none
FirstGreater(xs, x) ==
  LET hit == {i \in 1..Len(xs) : xs[i] > x}
  IN  IF hit = {} THEN 0 ELSE CHOOSE i \in hit : \A j \in hit : i <= j

----------------------------------------------------------------------------
(* ScheduledTicker: matching and next-occurrence search *)

\* The zero value ScheduledTicker{}: every field nil (every value).
ZeroTicker ==
  [seconds |-> <<>>, minutes |-> <<>>, hours |-> <<>>,
   days |-> <<>>, months |-> <<>>, weekdays |-> <<>>]

matchSecond(s, at) == Len(s.seconds) = 0 \/ Contains(s.seconds, SecondOf(at))
matchMinute(s, at) == Len(s.minutes) = 0 \/ Contains(s.minutes, MinuteOf(at))
matchHour(s, at) == Len(s.hours) = 0 \/ Contains(s.hours, HourOf(at))
\* matchDay satisfied by every day
matchDayAlways(s, at) == TRUE

matchDay(s, at) == Len(s.days) = 0 \/ Contains(s.days, DateOf(at).d)
matchMonth(s, at) == Len(s.months) = 0 \/ Contains(s.months, DateOf(at).m)
\* matchWeekday satisfied by the day of the month as well
matchWeekdayOrDay(s, at) ==
  \/ Len(s.weekdays) = 0
  \/ Contains(s.weekdays, WeekdayOf(at))
  \/ (Len(s.days) > 0 /\ Contains(s.days, DateOf(at).d))

matchWeekday(s, at) == Len(s.weekdays) = 0 \/ Contains(s.weekdays, WeekdayOf(at))

\* nextMonth going to the same month of the next year
nextMonthSameMonth(s, at) ==
  LET c == DateOf(at)
  IN  TimeDateIn(at.loc, c.y + 1, c.m, 1, 0, 0, 0)

nextMonth(s, at) ==
  LET c == DateOf(at)
      i == FirstGreater(s.months, c.m)
  IN  IF Len(s.months) = 0 THEN TimeDateIn(at.loc, c.y + 1, 1, 1, 0, 0, 0)
      ELSE IF i # 0 THEN TimeDateIn(at.loc, c.y, s.months[i], 1, 0, 0, 0)
      ELSE TimeDateIn(at.loc, c.y + 1, s.months[1], 1, 0, 0, 0)

nextDay(s, at) ==
  LET c == DateOf(at)
      i == FirstGreater(s.days, c.d)
  IN  IF Len(s.days) = 0 THEN TimeDateIn(at.loc, c.y, c.m, c.d + 1, 0, 0, 0)
      ELSE IF i # 0 THEN TimeDateIn(at.loc, c.y, c.m, s.days[i], 0, 0, 0)
      ELSE TimeDateIn(at.loc, c.y, c.m + 1, s.days[1], 0, 0, 0)

nextHour(s, at) ==
  LET hrs == HourOf(at)
      off == MinuteOf(at) * secondsInMinute + SecondOf(at)
      i   == FirstGreater(s.hours, hrs)
  IN  IF Len(s.hours) = 0 THEN TimeAdd(at, secondsInHour - off, -at.ns)
      ELSE IF i # 0
        THEN TimeAdd(at, (s.hours[i] - hrs) * secondsInHour - off, -at.ns)
      ELSE TimeAdd(at, (hoursInDay - hrs + s.hours[1]) * secondsInHour - off,
                   -at.ns)

\* nextMinute building the wall clock with time.Date instead of at.Add
nextMinuteByDate(s, at) ==
  LET c == DateOf(at)
      i == FirstGreater(s.minutes, MinuteOf(at))
  IN  IF Len(s.minutes) = 0
        THEN TimeDateIn(at.loc, c.y, c.m, c.d, HourOf(at), MinuteOf(at) + 1, 0)
      ELSE IF i # 0
        THEN TimeDateIn(at.loc, c.y, c.m, c.d, HourOf(at), s.minutes[i], 0)
      ELSE TimeDateIn(at.loc, c.y, c.m, c.d, HourOf(at), minutesInHour + s.minutes[1], 0)

nextMinute(s, at) ==
  LET off == SecondOf(at)
      min == MinuteOf(at)
      i   == FirstGreater(s.minutes, min)
  IN  IF Len(s.minutes) = 0 THEN TimeAdd(at, secondsInMinute - off, -at.ns)
      ELSE IF i # 0
        THEN TimeAdd(at, (s.minutes[i] - min) * secondsInMinute - off, -at.ns)
      ELSE TimeAdd(at, (minutesInHour - min + s.minutes[1]) * secondsInMinute - off,
                   -at.ns)

\* nextSecond with `v >= sec` for `v > sec`
nextSecondOrSame(s, at) ==
  LET sec == SecondOf(at)
      hit == {i \in 1..Len(s.seconds) : s.seconds[i] >= sec}
  IN  IF Len(s.seconds) = 0 THEN TimeAdd(at, 1, -at.ns)
      ELSE IF hit # {}
        THEN TimeAdd(at, s.seconds[CHOOSE i \in hit : \A j \in hit : i <= j] - sec,
                     -at.ns)
      ELSE TimeAdd(at, secondsInMinute - sec + s.seconds[1], -at.ns)

nextSecond(s, at) ==
  LET sec == SecondOf(at)
      i   == FirstGreater(s.seconds, sec)
  IN  IF Len(s.seconds) = 0 THEN TimeAdd(at, 1, -at.ns)
      ELSE IF i # 0 THEN TimeAdd(at, s.seconds[i] - sec, -at.ns)
      ELSE TimeAdd(at, secondsInMinute - sec + s.seconds[1], -at.ns)

\* the for loop of Next reaches `return at`: none of its five tests fails
loopReturns(s, at) ==
  /\ matchMonth(s, at)
  /\ matchWeekday(s, at) /\ matchDay(s, at)
  /\ matchHour(s, at)
  /\ matchMinute(s, at)
  /\ matchSecond(s, at)

\* one pass of the for loop of Next that ends in `continue`: the candidate
\* the first failing test assigns
loopContinues(s, at) ==
  IF ~matchMonth(s, at) THEN nextMonth(s, at)
  ELSE IF ~matchWeekday(s, at) \/ ~matchDay(s, at) THEN nextDay(s, at)
  ELSE IF ~matchHour(s, at) THEN nextHour(s, at)
  ELSE IF ~matchMinute(s, at) THEN nextMinute(s, at)
  ELSE nextSecond(s, at)

\* The for loop of Next.  The loop of the program has no exit but the
\* return; the model stops the search with NoTime once the candidate has
\* left the horizon.
RECURSIVE NextLoop(_, _)
NextLoop(s, at) ==
  IF DateOf(at).y > HorizonYear THEN NoTime
  ELSE IF loopReturns(s, at) THEN at
  ELSE NextLoop(s, loopContinues(s, at))

ScheduledNext(s, at) == NextLoop(s, nextSecond(s, at))

----------------------------------------------------------------------------
(* Strings (sequences of characters) and package strconv *)

Digits == <<"0", "1", "2", "3", "4", "5", "6", "7", "8", "9">>

IsDigit(c) == \E i \in 1..Len(Digits) : Digits[i] = c

DigitVal(c) == (CHOOSE i \in 1..Len(Digits) : Digits[i] = c) - 1

RECURSIVE DigitsVal(_, _)
DigitsVal(str, acc) ==
  IF Len(str) = 0 THEN acc
  ELSE DigitsVal(Tail(str), acc * Len(Digits) + DigitVal(Head(str)))

\* strconv.Atoi: an optional sign and at least one decimal digit.
Atoi(str) ==
  LET signed == Len(str) > 0 /\ Head(str) \in {"+", "-"}
      body   == IF signed THEN Tail(str) ELSE str
  IN  IF Len(body) = 0 \/ \E i \in 1..Len(body) : ~IsDigit(body[i])
        THEN [ok |-> FALSE, v |-> 0]
      ELSE [ok |-> TRUE,
            v  |-> IF signed /\ Head(str) = "-" THEN 0 - DigitsVal(body, 0)
                   ELSE DigitsVal(body, 0)]

\* fmt.Sprint of a non-negative int
RECURSIVE Itoa(_)
Itoa(num) ==
  IF num < Len(Digits) THEN <<Digits[num + 1]>>
  ELSE Itoa(num \div Len(Digits)) \o <<Digits[(num % Len(Digits)) + 1]>>

\* strings.Split(str, sep) for a one-character separator: the pieces between
\* the separators, empty ones included; cuts[k] is where the k-th piece
\* starts, behind the separator before it
Split(str, sep) ==
  LET seps == {i \in 1..Len(str) : str[i] = sep}
      cuts == [k \in 1..(Cardinality(seps) + 2) |->
                 IF k = 1 THEN 0
                 ELSE IF k = Cardinality(seps) + 2 THEN Len(str) + 1
                 ELSE CHOOSE i \in seps : Cardinality({j \in seps : j < i}) = k - 2]
  IN  [k \in 1..(Cardinality(seps) + 1) |-> SubSeq(str, cuts[k] + 1, cuts[k + 1] - 1)]

\* strings.TrimSuffix
TrimSuffix(str, suffix) ==
  IF Len(suffix) > 0 /\ Len(str) >= Len(suffix)
     /\ SubSeq(str, Len(str) - Len(suffix) + 1, Len(str)) = suffix
    THEN SubSeq(str, 1, Len(str) - Len(suffix))
  ELSE str

\* the elements of xs at the positions in keep, in the order of xs
Kept(xs, keep) ==
  [k \in 1..Cardinality(keep) |->
     xs[CHOOSE i \in keep : Cardinality({j \in keep : j <= i}) = k]]

\* sort.Slice with less(i, j) = nums[i] < nums[j]: the element that k - 1
\* others go before is the k-th (equal elements in any order, here theirs)
SortSlice(xs) ==
  [k \in 1..Len(xs) |->
     xs[CHOOSE i \in 1..Len(xs) :
          Cardinality({j \in 1..Len(xs) :
                         xs[j] < xs[i] \/ (xs[j] = xs[i] /\ j < i)}) = k - 1]]

\* sliceutil.Unique: the slice without repeated values, first occurrences kept
Unique(xs) ==
  Kept(xs, {i \in 1..Len(xs) : \A j \in 1..(i - 1) : xs[j] # xs[i]})

----------------------------------------------------------------------------
(* ScheduledTicker: parse *)

MonthAbbr ==
  << <<"j","a","n">>,
     <<"f","e","b">>,
     <<"m","a","r">>,
     <<"a","p","r">>,
     <<"m","a","y">>,
     <<"j","u","n">>,
     <<"j","u","l">>,
     <<"a","u","g">>,
     <<"s","e","p">>,
     <<"o","c","t">>,
     <<"n","o","v">>,
     <<"d","e","c">> >>

MonthName ==
  << <<"j","a","n","u","a","r","y">>,
     <<"f","e","b","r","u","a","r","y">>,
     <<"m","a","r","c","h">>,
     <<"a","p","r","i","l">>,
     <<"m","a","y">>,
     <<"j","u","n","e">>,
     <<"j","u","l","y">>,
     <<"a","u","g","u","s","t">>,
     <<"s","e","p","t","e","m","b","e","r">>,
     <<"o","c","t","o","b","e","r">>,
     <<"n","o","v","e","m","b","e","r">>,
     <<"d","e","c","e","m","b","e","r">> >>

WeekdayAbbr ==
  << <<"s","u","n">>,
     <<"m","o","n">>,
     <<"t","u","e">>,
     <<"w","e","d">>,
     <<"t","h","u">>,
     <<"f","r","i">>,
     <<"s","a","t">> >>

WeekdayName ==
  << <<"s","u","n","d","a","y">>,
     <<"m","o","n","d","a","y">>,
     <<"t","u","e","s","d","a","y">>,
     <<"w","e","d","n","e","s","d","a","y">>,
     <<"t","h","u","r","s","d","a","y">>,
     <<"f","r","i","d","a","y">>,
     <<"s","a","t","u","r","d","a","y">> >>

Ok(v) == [err |-> "nil", v |-> v]
Fail(msg) == [err |-> msg, v |-> 0]

parseSecond(str) ==
  LET r == Atoi(str)
  IN  IF ~r.ok THEN Fail("timeutil: invalid second")
      ELSE IF r.v < 0 \/ r.v >= secondsInMinute THEN Fail("timeutil: invalid second")
      ELSE Ok(r.v)

\* parseMinute with the messages of parseSecond
parseMinuteSaysSecond(str) ==
  LET r == Atoi(str)
  IN  IF ~r.ok THEN Fail("timeutil: invalid second")
      ELSE IF r.v < 0 \/ r.v >= minutesInHour THEN Fail("timeutil: invalid second")
      ELSE Ok(r.v)

parseMinute(str) ==
  LET r == Atoi(str)
  IN  IF ~r.ok THEN Fail("timeutil: invalid minute")
      ELSE IF r.v < 0 \/ r.v >= minutesInHour THEN Fail("timeutil: invalid minute")
      ELSE Ok(r.v)

parseHour(str) ==
  LET r == Atoi(str)
  IN  IF ~r.ok THEN Fail("timeutil: invalid hour")
      ELSE IF r.v < 0 \/ r.v >= hoursInDay THEN Fail("timeutil: invalid hour")
      ELSE Ok(r.v)

parseDay(str) ==
  LET r == Atoi(str)
  IN  IF ~r.ok THEN Fail("timeutil: invalid day")
      ELSE IF r.v <= 0 \/ r.v > maxDaysInMonth THEN Fail("timeutil: invalid day")
      ELSE Ok(r.v)

\* the switch of parseMonth: "1".."12", "jan".."dec", "january".."december"
parseMonth(str) ==
  LET hit == {i \in 1..monthsInYear :
                str = Itoa(i) \/ str = MonthAbbr[i] \/ str = MonthName[i]}
  IN  IF hit = {} THEN Fail("timeutil: invalid month")
      ELSE Ok(CHOOSE i \in hit : TRUE)

\* the switch of parseWeekday: "sun".."sat", "sunday".."saturday"
parseWeekday(str) ==
  LET hit == {i \in 1..daysInWeek : str = WeekdayAbbr[i] \/ str = WeekdayName[i]}
  IN  IF hit = {} THEN Fail("timeutil: invalid weekday")
      ELSE Ok((CHOOSE i \in hit : TRUE) - 1)

\* fn(s) for the function parsePart was handed, given by its name
callFn(fn, str) ==
  CASE fn = "parseSecond" -> parseSecond(str)
    [] fn = "parseMinute" -> parseMinute(str)
    [] fn = "parseHour" -> parseHour(str)
    [] fn = "parseDay" -> parseDay(str)
    [] fn = "parseMonth" -> parseMonth(str)
    [] fn = "parseWeekday" -> parseWeekday(str)

\* the end of the for loop of parsePart, rs being what fn returned for each
\* of the parts: `if err != nil { return nil, err }` at the first error,
\* `nums = append(nums, num)` for all of them otherwise
appendValues(rs) ==
  LET bad == {i \in 1..Len(rs) : rs[i].err # "nil"}
  IN  IF bad # {}
        THEN [err |-> rs[CHOOSE i \in bad : \A j \in bad : i <= j].err, nums |-> <<>>]
      ELSE [err |-> "nil", nums |-> [i \in 1..Len(rs) |-> rs[i].v]]

\* the for loop of parsePart over the comma-separated values
parseValues(parts, fn) == appendValues([i \in 1..Len(parts) |-> callFn(fn, parts[i])])

\* the end of parsePart without sliceutil.Unique
sortedOnly(r) ==
  IF r.err # "nil" THEN r
  ELSE IF Len(r.nums) = 1 THEN r
  ELSE [err |-> "nil", nums |-> SortSlice(r.nums)]

\* the end of parsePart, r being what its for loop left: one value is
\* returned as it is, more are sorted and deduplicated
sortedUnique(r) ==
  IF r.err # "nil" THEN r
  ELSE IF Len(r.nums) = 1 THEN r
  ELSE [err |-> "nil", nums |-> Unique(SortSlice(r.nums))]

\* parsePart after strings.TrimSuffix
parseTrimmed(part, fn) ==
  IF part = <<"*">> THEN [err |-> "nil", nums |-> <<>>]
  ELSE sortedUnique(parseValues(Split(part, ","), fn))

\* parsePart(part, suffix, fn)
parsePart(part, suffix, fn) == parseTrimmed(TrimSuffix(part, suffix), fn)

FieldNames == <<"seconds", "minutes", "hours", "days", "months", "weekdays">>

FieldSizes ==
  <<secondsInMinute, minutesInHour, hoursInDay, maxDaysInMonth, monthsInYear,
    daysInWeek>>

\* the suffix and the function parse hands to parsePart for each field
FieldSuffixes == << <<"s">>, <<"m">>, <<"h">>, <<"d">>, <<>>, <<>> >>

FieldFns ==
  <<"parseSecond", "parseMinute", "parseHour", "parseDay", "parseMonth",
    "parseWeekday">>

\* parsePart as parse calls it for the i-th part of the spec
parseField(i, part) == parsePart(part, FieldSuffixes[i], FieldFns[i])

\* parse without its tail
collapseNone(s) == s

\* the tail of parse: a field that lists its whole range becomes nil
collapse(s) ==
  [f \in DOMAIN s |->
     LET i == CHOOSE k \in 1..Len(FieldNames) : FieldNames[k] = f
     IN  IF Len(s[f]) = FieldSizes[i] THEN <<>> ELSE s[f]]

RECURSIVE parseFields(_, _, _)

\* `if s.field, err = parsePart(...); err != nil { return err }`, r being
\* what parsePart returned: the field is assigned before the error is
\* looked at
assignField(s, parts, i, r) ==
  IF r.err # "nil" THEN [s |-> [s EXCEPT ![FieldNames[i]] = r.nums], err |-> r.err]
  ELSE parseFields([s EXCEPT ![FieldNames[i]] = r.nums], parts, i + 1)

\* the chain of `if len(parts) >= i { ... }` of parse, then its tail
parseFields(s, parts, i) ==
  IF i > Len(parts) \/ i > Len(FieldNames) THEN [s |-> collapse(s), err |-> "nil"]
  ELSE assignField(s, parts, i, parseField(i, parts[i]))

\* (s *ScheduledTicker) parse(spec): the receiver afterwards and the error
parse(s, spec) ==
  IF Len(spec) = 0 THEN [s |-> s, err |-> "timeutil: invalid spec: spec is empty"]
  ELSE LET parts == Split(spec, " ")
       IN  IF Len(parts) > Len(FieldNames)
             THEN [s |-> s, err |-> "timeutil: invalid spec"]
           ELSE parseFields(s, parts, 1)

----------------------------------------------------------------------------
(* ScheduledTicker: String *)

\* the strings with the separator between them (the first and the second
\* half joined)
RECURSIVE JoinWith(_, _)
JoinWith(strs, sep) ==
  IF Len(strs) = 0 THEN <<>>
  ELSE IF Len(strs) = 1 THEN strs[1]
  ELSE JoinWith(SubSeq(strs, 1, Len(strs) \div 2), sep) \o sep
         \o JoinWith(SubSeq(strs, Len(strs) \div 2 + 1, Len(strs)), sep)

writeNums(nums) ==
  IF Len(nums) = 0 THEN <<"*">>
  ELSE JoinWith([i \in 1..Len(nums) |-> Itoa(nums[i])], <<",">>)

\* writeWeekdays printing the numbers of the weekdays, as writeNums does
writeWeekdaysAsNums(weekdays) ==
  IF Len(weekdays) = 0 THEN <<"*">>
  ELSE JoinWith([i \in 1..Len(weekdays) |-> Itoa(weekdays[i])], <<",">>)

writeWeekdays(weekdays) ==
  IF Len(weekdays) = 0 THEN <<"*">>
  ELSE JoinWith([i \in 1..Len(weekdays) |-> WeekdayAbbr[weekdays[i] + 1]], <<",">>)

writeMonths(months) ==
  IF Len(months) = 0 THEN <<"*">>
  ELSE JoinWith([i \in 1..Len(months) |-> MonthAbbr[months[i]]], <<",">>)

String(s) ==
  writeNums(s.seconds) \o <<"s", " ">> \o
  writeNums(s.minutes) \o <<"m", " ">> \o
  writeNums(s.hours) \o <<"h", " ">> \o
  writeNums(s.days) \o <<"d", " ">> \o
  writeMonths(s.months) \o <<" ">> \o
  writeWeekdays(s.weekdays)

----------------------------------------------------------------------------
(* The ScheduledTicker as a state machine: construction, UnmarshalText on  *)
(* the existing value, and Next.                                           *)

\* Values offered for each of the six parts of a spec given to
\* NewScheduledTicker.
PartOptions ==
  << {<<"*">>, <<"0">>, <<"3","0",",","0">>},
     {<<"*">>, <<"0","m">>},
     {<<"0">>, <<"1","2",",","6","h">>},
     {<<"*">>, <<"1">>, <<"1",",","3","1">>},
     {<<"*">>, <<"j","a","n">>, <<"s","e","p",",","f","e","b">>},
     {<<"*">>, <<"w","e","d">>} >>

\* the specs of k parts, each part one of its options
RECURSIVE SpecsOfParts(_)
SpecsOfParts(k) ==
  IF k = 1 THEN PartOptions[1]
  ELSE {spec \o <<" ">> \o part : spec \in SpecsOfParts(k - 1), part \in PartOptions[k]}

\* specs that parse must refuse, and the enumeration of a whole range
OddTexts ==
  { <<>>,
    <<"*"," ","*"," ","*"," ","*"," ","*"," ","*"," ","*">>,
    <<"6","0">>,
    <<"0"," ","0"," ","0"," ","3","2">>,
    <<"0"," ","0"," ","0"," ","1"," ","1"," ","1">>,
    <<"0"," ","0"," ","0"," ","1"," ","J","a","n">>,
    <<"0"," "," ","0">>,
    <<"0"," ","0"," ","0"," ","*"," ","*"," ">>
      \o JoinWith([i \in 1..daysInWeek |-> WeekdayAbbr[(i % daysInWeek) + 1]], <<",">>) }

\* the legal values of the i-th field: days and months count from one
LegalValues(i) ==
  IF FieldNames[i] \in {"days", "months"} THEN 1..FieldSizes[i]
  ELSE 0..(FieldSizes[i] - 1)

\* a token parse accepts for the value v of the i-th field: months by number,
\* abbreviation and name in turn, weekdays by abbreviation and name in turn
TokenOf(i, v) ==
  IF FieldNames[i] = "months"
    THEN (IF v % 3 = 0 THEN Itoa(v) ELSE IF v % 3 = 1 THEN MonthAbbr[v] ELSE MonthName[v])
  ELSE IF FieldNames[i] = "weekdays"
    THEN (IF v % 2 = 0 THEN WeekdayAbbr[v + 1] ELSE WeekdayName[v + 1])
  ELSE Itoa(v)

\* the legal values of the i-th field from the greatest down to the one
\* `last`, the greatest once more behind them
DescendingList(i, last) ==
  LET top == CHOOSE v \in LegalValues(i) : \A w \in LegalValues(i) : w <= v
  IN  JoinWith([k \in 1..(top - last + 2) |->
                  IF k = top - last + 2 THEN TokenOf(i, top) ELSE TokenOf(i, top - k + 1)],
               <<",">>)

\* the spec whose i-th part is the given list, the parts before it `*`
ListSpec(i, list) ==
  JoinWith([k \in 1..i |-> IF k = i THEN list ELSE <<"*">>], <<" ">>)

\* for each field, a list that names every legal value, unsorted and with a
\* repeated value (TestScheduledTicker_String)
WholeRangeTexts ==
  {ListSpec(i, DescendingList(i, CHOOSE v \in LegalValues(i) : \A w \in LegalValues(i) : v <= w)) :
     i \in 1..Len(FieldNames)}

\* for each field, the same list without the least legal value
MissingOneTexts ==
  {ListSpec(i, DescendingList(i, 1 + CHOOSE v \in LegalValues(i) : \A w \in LegalValues(i) : v <= w)) :
     i \in 1..Len(FieldNames)}

\* specs with one value that is out of range, not a number or not a name
\* (TestScheduledTicker, invalid values), and with numbers written with a
\* sign or a leading zero
InvalidTexts ==
  { <<"-","1"," ","*"," ","*"," ","*"," ","*"," ","*">>,
    <<"0"," ","-","1">>,
    <<"0"," ","6","0">>,
    <<"0"," ","0"," ","-","1">>,
    <<"0"," ","0"," ","2","5">>,
    <<"0"," ","0"," ","0"," ","0">>,
    <<"0"," ","0"," ","0"," ","1"," ","0"," ","*">>,
    <<"0"," ","0"," ","0"," ","1"," ","1","3"," ","*">>,
    <<"0"," ","0"," ","0"," ","1"," ","1"," ","a">>,
    <<"0"," ","0"," ","0"," ","1"," ","f","o","o">>,
    <<"x">>,
    <<"0",",","*">>,
    <<"0"," ","1",",",",","2">>,
    <<"0"," ","6","1"," ","*"," ","*"," ","*"," ","3">> }

SignedTexts ==
  { <<"+","5"," ","0","7","m">>,
    <<"0"," ","0"," ","0"," ","0","1","d">>,
    <<"0"," ","0"," ","0"," ","1"," ","0","1">>,
    <<"0"," ","0"," ","0"," ","1"," ","1","2"," ","s","u","n","d","a","y">> }

\* month and weekday names written with capital letters, and in full
CapitalTexts ==
  { <<"0"," ","0"," ","0"," ","1"," ","J","A","N","U","A","R","Y">>,
    <<"0"," ","0"," ","0"," ","1"," ","j","a","n"," ","W","e","d">>,
    <<"0"," ","0"," ","0"," ","1"," ","d","e","c","e","m","b","e","r"," ","t","h","u">> }

\* schedules no day satisfies: months that have no such day
NeverTexts ==
  { <<"0"," ","0"," ","0"," ","3","1"," ","f","e","b"," ","*">>,
    <<"3","0"," ","*"," ","*"," ","3","1",",","3","0"," ","2">>,
    <<"*"," ","*"," ","*"," ","3","1"," ","a","p","r",",","j","u","n">> }

\* the schedule of TestScheduledTicker_SummerTime
SummerTimeText ==
  <<"0"," ","0",",","3","0"," ","0",",","1",",","2",",","3",",","4"," ","*"," ","*"," ","*">>

NewTexts ==
  {SummerTimeText} \cup CapitalTexts \cup NeverTexts \cup UNION {SpecsOfParts(k) : k \in 1..Len(PartOptions)} \cup OddTexts
    \cup WholeRangeTexts \cup MissingOneTexts \cup InvalidTexts \cup SignedTexts

\* texts given to UnmarshalText on a ticker that already holds a schedule
ReTexts ==
  { <<"5">>,
    <<"1","5"," ","3","0">>,
    <<"0"," ","6","1">>,
    <<"*"," ","*"," ","*"," ","1","5"," ","m","a","r"," ","f","r","i">> }

\* an hour before the clock of Central Europe goes back (2020-10-25 03:00
\* CEST is 02:00 CET) and an hour before it goes forward (2020-03-29 02:00
\* CET is 03:00 CEST)
BeforeFallBack == TimeDateIn("CET", 2020, 10, 25, 1, 0, 0)
BeforeSpringForward == TimeDateIn("CET", 2020, 3, 29, 1, 0, 0)

SummerTimes == {BeforeFallBack, BeforeSpringForward}

\* arguments of Next
Times ==
  { TimeDate(2020, 1, 1, 0, 0, 0),
    TimeAdd(TimeDate(2020, 1, 31, 23, 59, 59), 0, 500000000),
    TimeDate(2020, 12, 31, 23, 59, 59),
    TimeDate(2020, 2, 28, 12, 30, 15) } \cup SummerTimes

InitTicker ==
  /\ ticker = ZeroTicker
  /\ made = FALSE
  /\ lastText = <<>>
  /\ lastErr = "none"
  /\ lastAt = NoTime
  /\ lastOut = NoTime
  /\ unmarshals = 0
  /\ chain = <<>>

\* the return of NewScheduledTicker, r being what parse left
newTickerReturned(r) ==
  /\ lastErr' = r.err
  /\ made' = (r.err = "nil")
  /\ ticker' = IF r.err = "nil" THEN r.s ELSE ZeroTicker

\* the return of UnmarshalText, r being what parse left
unmarshalReturned(r) ==
  /\ lastErr' = r.err
  /\ ticker' = r.s

\* NewScheduledTicker(spec): a fresh zero ticker is parsed into; on error
\* no ticker is returned.
NewScheduledTicker(spec) ==
  /\ ~made
  /\ lastErr = "none"
  /\ lastText' = spec
  /\ newTickerReturned(parse(ZeroTicker, spec))
  /\ UNCHANGED <<lastAt, lastOut, unmarshals, chain, schedVars, fanVars>>

\* (s *ScheduledTicker) UnmarshalText(text) on the ticker made before
UnmarshalText(text) ==
  /\ made
  /\ unmarshals < MaxUnmarshal
  /\ lastText' = text
  /\ unmarshalReturned(parse(ticker, text))
  /\ unmarshals' = unmarshals + 1
  /\ lastAt' = NoTime
  /\ lastOut' = NoTime
  /\ chain' = <<>>
  /\ UNCHANGED <<made, schedVars, fanVars>>

\* the return of Next(at) with `out`
nextReturned(at, out) ==
  /\ lastAt' = at
  /\ lastOut' = out
  /\ chain' = IF Len(chain) > 0 /\ at = chain[Len(chain)]
                THEN Append(chain, out) ELSE <<at, out>>

\* (s *ScheduledTicker) Next(at)
CallNext(at) ==
  /\ made
  /\ nextReturned(at, ScheduledNext(ticker, at))
  /\ UNCHANGED <<ticker, made, lastText, lastErr, unmarshals, schedVars, fanVars>>

\* at = s.Next(at): Next is called with what it returned last, in a row of
\* calls that began at a clock change (TestScheduledTicker_SummerTime)
CallNextAgain ==
  /\ lastOut # NoTime
  /\ Len(chain) > 0 /\ Len(chain) <= MaxChain
  /\ chain[1] \in SummerTimes
  /\ CallNext(lastOut)

NextTicker ==
  \/ \E spec \in NewTexts : NewScheduledTicker(spec)
  \/ \E text \in ReTexts : UnmarshalText(text)
  \/ \E at \in Times : CallNext(at)
  \/ CallNextAgain


----------------------------------------------------------------------------
(* Next-tick providers *)

\* (t *IntervalTicker) Next(at), with at.Add(-interval) for at.Add(interval)
intervalNextBackwards(interval, at) == at - interval

\* (t *IntervalTicker) Next(at)
intervalNext(interval, at) == at + interval

\* the schedule of the ScheduledTicker given to the Scheduler: the first two
\* seconds of every hour and of every half hour
SchedulerSpec == <<"0",",","1"," ","0",",","3","0">>

Intervals == {0 - 1, 1, scheduleMaxSleepTime + 100}

Providers ==
  {[kind |-> "interval", interval |-> i] : i \in Intervals}
    \cup {[kind |-> "schedule", interval |-> 0], [kind |-> "manual", interval |-> 0]}

\* the ScheduledTicker given to the Scheduler
SchedulerTicker == parse(ZeroTicker, SchedulerSpec).s

\* s.n.Next(at) for the providers that compute (Manual blocks instead)
ProviderNext(p, at) ==
  IF p.kind = "interval" THEN intervalNext(p.interval, at)
  ELSE ScheduledNext(SchedulerTicker, Time(at, 0)).s

\* the clock when the program starts
StartClock == TimeDate(2020, 1, 1, 0, 0, 0).s

\* the clock moves by a second or by a quarter of an hour
ClockSteps == {1, scheduleMaxSleepTime}

----------------------------------------------------------------------------
(* Scheduler *)

NoTick == 0 - 1

NoStart == [started |-> FALSE, nilctx |-> FALSE, out |-> "none"]

\* NewScheduler(n, tz)
InitSched ==
  /\ provider \in Providers
  /\ sctx = "nil"
  /\ cancelled = FALSE
  /\ pc = "idle"
  /\ n = NoTick
  /\ deadline = 0
  /\ wake = "none"
  /\ now = StartClock
  /\ advances = 0
  /\ chClosed = FALSE
  /\ closes = 0
  /\ received = <<>>
  /\ tickAts = <<>>
  /\ lastStart = NoStart
  /\ launched = 0
  /\ seeds = <<>>
  /\ manualQ = {}
  /\ manualCalls = 0
  /\ taken = <<>>

\* callers of TickAt that hold s.mu.RLock, blocked in `s.c <- at`
BlockedTickAts == {i \in 1..Len(tickAts) : tickAts[i].st = "blocked"}

\* Start without its first check
startOutcomeNoStartedCheck(started, nilctx) ==
  IF nilctx THEN "panic: context is nil" ELSE "ok"

\* the checks of Start
startOutcome(started, nilctx) ==
  IF started THEN "panic: scheduler is already started"
  ELSE IF nilctx THEN "panic: context is nil"
  ELSE "ok"

\* (s *Scheduler) Start(ctx), under s.mu.Lock (which waits for the readers)
Start(nilctx) ==
  /\ launched < MaxLaunch
  /\ BlockedTickAts = {}
  /\ LET out == startOutcome(sctx # "nil", nilctx)
     IN  /\ lastStart' = [started |-> sctx # "nil", nilctx |-> nilctx, out |-> out]
         /\ IF out = "ok"
              THEN /\ sctx' = "ctx"
                   /\ pc' = "first"
                   /\ launched' = launched + 1
              ELSE UNCHANGED <<sctx, pc, launched>>
  /\ UNCHANGED <<provider, cancelled, n, deadline, wake, now, advances, chClosed,
                 closes, received, tickAts, seeds, manualQ, manualCalls, taken,
                 tickerVars, fanVars>>

\* the timezone given to NewScheduler
SchedulerTz == "UTC"

\* at.In(loc): the same instant, read in the location loc
In(at, loc) == [at EXCEPT !.loc = loc]

\* what TickAt sends, with at for at.In(s.tz)
tickAtSentAsGiven(at) == at

\* what TickAt sends: `at.In(s.tz)`
tickAtSent(at) == In(at, SchedulerTz)

\* the check of TickAt without `s.ctx.Err() != nil`
tickAtRefusedUnlessStarted(started, isCancelled) == ~started

\* `s.ctx == nil || s.ctx.Err() != nil` of TickAt
tickAtRefused(started, isCancelled) == ~started \/ isCancelled

\* (s *Scheduler) TickAt(at): the check, then the caller blocks in the send
\* (a send on the closed channel panics)
TickAt(at) ==
  /\ Len(tickAts) < MaxTickAt
  /\ tickAts' = Append(tickAts,
       [t |-> at.s, loc |-> at.loc, started |-> sctx # "nil", cancelled |-> cancelled,
        st |-> IF tickAtRefused(sctx # "nil", cancelled) THEN "panic"
               ELSE IF chClosed THEN "panicClosed"
               ELSE "blocked"])
  /\ UNCHANGED <<provider, sctx, cancelled, pc, n, deadline, wake, now, advances,
                 chClosed, closes, received, lastStart, launched, seeds, manualQ, manualCalls, taken, tickerVars, fanVars>>

\* (s *Scheduler) Tick(): s.TickAt(time.Now().In(s.tz))
Tick == TickAt(In(Time(now, 0), SchedulerTz))

\* the timestamp the callers of Scheduler.TickAt give: the start of the
\* clock, read in another location than the Scheduler's
TickAtTime == TimeIn(StartClock, 0, "CET")

\* the context is cancelled; a goroutine parked in the select of sleep whose
\* timer has not fired is woken by ctx.Done()
Cancel ==
  /\ ~cancelled
  /\ cancelled' = TRUE
  /\ wake' = IF pc \in {"sleep", "sleepMax"} /\ wake = "none" THEN "ctx" ELSE wake
  /\ UNCHANGED <<provider, sctx, pc, n, deadline, now, advances, chClosed, closes,
                 received, tickAts, lastStart, launched, seeds, manualQ, manualCalls, taken, tickerVars, fanVars>>

\* time passes; a goroutine parked in the select of sleep whose timer
\* expires is woken by t.C
Advance(dt) ==
  /\ advances < MaxAdvances
  /\ advances' = advances + 1
  /\ now' = now + dt
  /\ wake' = IF pc \in {"sleep", "sleepMax"} /\ wake = "none" /\ now + dt >= deadline
               THEN "timer" ELSE wake
  /\ UNCHANGED <<provider, sctx, cancelled, pc, n, deadline, chClosed, closes,
                 received, tickAts, lastStart, launched, seeds, manualQ, manualCalls, taken, tickerVars, fanVars>>

\* (t *ManualTicker) TickAt(at): the caller blocks in `t.c <- at`
ManualTickAt(at) ==
  /\ provider.kind = "manual"
  /\ manualCalls < MaxManual
  /\ manualCalls' = manualCalls + 1
  /\ manualQ' = manualQ \cup {[id |-> manualCalls + 1, t |-> at]}
  /\ UNCHANGED <<provider, sctx, cancelled, pc, n, deadline, wake, now, advances,
                 chClosed, closes, received, tickAts, lastStart, launched, seeds, taken, tickerVars, fanVars>>

\* the timestamps the callers of ManualTicker.TickAt hand over, going back
\* and forth: one ahead of the clock at first (behind it once a quarter of
\* an hour has passed) from every other caller, the start of the clock from
\* the callers between
ManualTimes == {IF manualCalls % 2 = 0 THEN StartClock + 2 ELSE StartClock}

\* the argument of the first call of Next: time.Now().In(s.tz)
firstSeed == now

\* the argument of the later calls of Next, with the clock for an overdue n
afterSeedLatest == IF now > n THEN now ELSE n

\* the argument of the later calls of Next, with time.Now() for n
afterSeedNow == now

\* the argument of the later calls of Next: n.In(s.tz)
afterSeed == n

\* (t *ManualTicker) Next with time.Now() for the value received
manualNextNow(m) == now

\* (t *ManualTicker) Next(_): `return <-t.c`, m being the caller whose send
\* the receive meets
manualNext(m) == m.t

\* s.n.Next(seed) returns in the goroutine: a computing provider returns
\* at once, Manual when a caller of ManualTicker.TickAt hands over a value
CallProvider(seed) ==
  /\ \/ /\ provider.kind # "manual"
        /\ n' \in {ProviderNext(provider, seed)}
        /\ UNCHANGED <<manualQ, taken>>
     \/ /\ provider.kind = "manual"
        /\ \E m \in manualQ :
             /\ n' = manualNext(m)
             /\ manualQ' = manualQ \ {m}
             /\ taken' = Append(taken, m)
  /\ seeds' = Append(seeds, seed)
  /\ pc' = "eval"
  /\ UNCHANGED <<provider, sctx, cancelled, deadline, wake, now, advances, chClosed,
                 closes, received, tickAts, lastStart, launched, manualCalls, tickerVars, fanVars>>

\* n := s.n.Next(time.Now().In(s.tz))
LoopFirst ==
  /\ pc = "first"
  /\ CallProvider(firstSeed)

\* sleep(ctx, d) for d <= 0 returning true although ctx is cancelled
sleepNoWaitIgnoringCtx(isCancelled) == TRUE

\* sleep(ctx, d) for d <= 0: `return ctx.Err() == nil`
sleepNoWait(isCancelled) == ~isCancelled

\* `if d <= 0` of sleep taken for every d
sleepIsDueAnyway(d) == TRUE

\* `if d <= 0` of sleep: there is nothing to wait for
sleepIsDue(d) == d <= 0

\* the top of the for loop: d := time.Until(n), then the entry of sleep with
\* the ceiling or with d.  A sleep of a positive duration starts its timer
\* and parks in the select, unless ctx.Done() is ready already.
LoopEval ==
  /\ pc = "eval"
  /\ LET d == n - now
         ceiling == d >= scheduleMaxSleepTime
     IN  IF ~ceiling /\ sleepIsDue(d)
           THEN /\ pc' = IF sleepNoWait(cancelled) THEN "send" ELSE "exit"
                /\ UNCHANGED <<deadline, wake>>
         ELSE IF cancelled
           THEN /\ pc' = "exit"
                /\ UNCHANGED <<deadline, wake>>
         ELSE /\ pc' = IF ceiling THEN "sleepMax" ELSE "sleep"
              /\ deadline' = now + (IF ceiling THEN scheduleMaxSleepTime ELSE d)
              /\ wake' = "none"
  /\ UNCHANGED <<provider, sctx, cancelled, n, now, advances, chClosed, closes,
                 received, tickAts, lastStart, launched, seeds, manualQ, manualCalls, taken, tickerVars, fanVars>>

\* the loop sending its tick after the ceiling sleep as after the other
afterSleepSends(ceiling) == "send"

\* where the loop goes when sleep returned true: `continue` after the sleep
\* of the ceiling, `s.c <- n` after the sleep of d
afterSleep(ceiling) == IF ceiling THEN "eval" ELSE "send"

\* the select of sleep with its two cases exchanged
sleepWokenExchanged(by) == by = "ctx"

\* the select of sleep for d > 0: `case <-ctx.Done(): return false` and
\* `case <-t.C: return true`
sleepWoken(by) == by = "timer"

\* sleep returns, its timer gone: false when ctx.Done() woke it, true when
\* the timer did; after the ceiling sleep the loop continues, after the other
\* it sends
LoopWake ==
  /\ pc \in {"sleep", "sleepMax"}
  /\ wake # "none"
  /\ pc' = IF ~sleepWoken(wake) THEN "exit" ELSE afterSleep(pc = "sleepMax")
  /\ wake' = "none"
  /\ deadline' = 0
  /\ UNCHANGED <<provider, sctx, cancelled, n, now, advances, chClosed, closes,
                 received, tickAts, lastStart, launched, seeds, manualQ, manualCalls, taken,
                 tickerVars, fanVars>>

\* `s.c <- n` meets a receive of the consumer; n is in the timezone of the
\* Scheduler, Next keeping the location of its argument and the callers of
\* the ManualTicker handing over timestamps of that timezone
RecvFromLoop ==
  /\ pc = "send"
  /\ Len(received) < MaxRecv
  /\ received' = Append(received, [src |-> "loop", id |-> 0, t |-> n, loc |-> SchedulerTz])
  /\ pc' = "after"
  /\ UNCHANGED <<provider, sctx, cancelled, n, deadline, wake, now, advances,
                 chClosed, closes, tickAts, lastStart, launched, seeds, manualQ, manualCalls, taken, tickerVars, fanVars>>

\* `s.c <- at.In(s.tz)` of a TickAt caller meets a receive of the consumer
RecvFromTickAt ==
  /\ Len(received) < MaxRecv
  /\ \E i \in BlockedTickAts :
       /\ LET sent == tickAtSent(TimeIn(tickAts[i].t, 0, tickAts[i].loc))
          IN  received' = Append(received,
                [src |-> "tickAt", id |-> i, t |-> sent.s, loc |-> sent.loc])
       /\ tickAts' = [tickAts EXCEPT ![i].st = "sent"]
  /\ UNCHANGED <<provider, sctx, cancelled, pc, n, deadline, wake, now, advances,
                 chClosed, closes, lastStart, launched, seeds, manualQ, manualCalls, taken, tickerVars, fanVars>>

\* n = s.n.Next(n.In(s.tz))
LoopAfter ==
  /\ pc = "after"
  /\ CallProvider(afterSeed)

\* the return of the goroutine runs `defer close(s.c)`; senders blocked on
\* the channel panic
LoopExit ==
  /\ pc = "exit"
  /\ pc' = "done"
  /\ chClosed' = TRUE
  /\ closes' = closes + 1
  /\ tickAts' = [i \in 1..Len(tickAts) |->
                   IF tickAts[i].st = "blocked"
                     THEN [tickAts[i] EXCEPT !.st = "panicClosed"]
                   ELSE tickAts[i]]
  /\ UNCHANGED <<provider, sctx, cancelled, n, deadline, wake, now, advances,
                 received, lastStart, launched, seeds, manualQ, manualCalls, taken, tickerVars, fanVars>>

\* the steps the goroutine takes by itself
LoopStep == LoopFirst \/ LoopEval \/ LoopWake \/ LoopAfter \/ LoopExit

NextSched ==
  \/ \E nilctx \in BOOLEAN : Start(nilctx)
  \/ Tick
  \/ TickAt(TickAtTime)
  \/ Cancel
  \/ \E dt \in ClockSteps : Advance(dt)
  \/ \E at \in ManualTimes : ManualTickAt(at)
  \/ LoopFirst
  \/ LoopEval
  \/ LoopWake
  \/ RecvFromLoop
  \/ RecvFromTickAt
  \/ LoopAfter
  \/ LoopExit

----------------------------------------------------------------------------
(* FanOut *)

\* The producer sends 1, 2, ... on the unbuffered input channel, so that the
\* k-th value is k.  An output is known by the number of the call that made
\* it.  fo.mu is held by fanOutRoutine throughout its loop over fo.out; the
\* other critical sections do not block and are one step each.

\* NewFanOut(input): the map is empty and fanOutRoutine is in its range
InitFan ==
  /\ inClosed = FALSE
  /\ inRead = 0
  /\ foIn = "in"
  /\ foOut = {}
  /\ foPc = "range"
  /\ foTodo = {}
  /\ foCur = 0
  /\ outs = <<>>

\* fo.mu is locked
muHeld == foPc = "send"

\* the value fanOutRoutine has in hand
inHand == inRead

\* `in <- v` of the producer meets the receive of `for v := range fo.in`
SendIn ==
  /\ ~inClosed
  /\ inRead < MaxValues
  /\ foPc = "range"
  /\ inRead' = inRead + 1
  /\ foPc' = "lock"
  /\ UNCHANGED <<inClosed, foIn, foOut, foTodo, foCur, outs, tickerVars, schedVars>>

\* close(in) of the producer
CloseIn ==
  /\ ~inClosed
  /\ inClosed' = TRUE
  /\ UNCHANGED <<inRead, foIn, foOut, foPc, foTodo, foCur, outs, tickerVars, schedVars>>

\* fanOutRoutine: fo.mu.Lock() with a value in hand, the loop over fo.out
\* begins
routineLock ==
  /\ foPc = "lock"
  /\ foPc' = "send"
  /\ foTodo' = foOut
  /\ foCur' = 0
  /\ UNCHANGED <<inClosed, inRead, foIn, foOut, outs, tickerVars, schedVars>>

\* fanOutRoutine: `for ch := range fo.out` comes to a key, in the order the
\* map gives, and blocks in `ch <- v`
routinePick ==
  /\ foPc = "send"
  /\ foCur = 0
  /\ \E ch \in foTodo : foCur' = ch
  /\ UNCHANGED <<inClosed, inRead, foIn, foOut, foPc, foTodo, outs, tickerVars, schedVars>>

\* `ch <- v` of fanOutRoutine meets a receive of the consumer of ch
Recv ==
  /\ foPc = "send"
  /\ foCur # 0
  /\ outs' = [outs EXCEPT ![foCur].got = Append(@, inHand)]
  /\ foTodo' = foTodo \ {foCur}
  /\ foCur' = 0
  /\ UNCHANGED <<inClosed, inRead, foIn, foOut, foPc, tickerVars, schedVars>>

\* fanOutRoutine: the loop over fo.out is over, fo.mu.Unlock(), back to
\* the range
routineUnlock ==
  /\ foPc = "send"
  /\ foCur = 0
  /\ foTodo = {}
  /\ foPc' = "range"
  /\ UNCHANGED <<inClosed, inRead, foIn, foOut, foTodo, foCur, outs, tickerVars, schedVars>>

\* fanOutRoutine: the range over the closed input ends
routineRangeEnds ==
  /\ foPc = "range"
  /\ inClosed
  /\ foPc' = "lockEnd"
  /\ UNCHANGED <<inClosed, inRead, foIn, foOut, foTodo, foCur, outs, tickerVars, schedVars>>

\* fanOutRoutine: fo.mu.Lock(), close of every channel of fo.out,
\* fo.in = nil, fo.out = nil, fo.mu.Unlock()
routineEnd ==
  /\ foPc = "lockEnd"
  /\ outs' = [i \in 1..Len(outs) |->
                IF i \in foOut
                  THEN [outs[i] EXCEPT !.closed = TRUE, !.by = "fanOutRoutine"]
                ELSE outs[i]]
  /\ foIn' = "nil"
  /\ foOut' = {}
  /\ foPc' = "done"
  /\ UNCHANGED <<inClosed, inRead, foTodo, foCur, tickerVars, schedVars>>

\* fanOutRoutine
fanOutRoutine ==
  routineLock \/ routinePick \/ routineUnlock \/ routineRangeEnds \/ routineEnd

\* `if fo.in == nil` of OutputContext: the channel is returned closed
returnedClosed(in) == in = "nil"

\* (fo *FanOut) OutputContext(ctx), under fo.mu: a new channel, closed at
\* once or put into fo.out, with closeRoutine started for a context
OutputContext(ctx) ==
  /\ Len(outs) < MaxOutputs
  /\ ~muHeld
  /\ LET ch == Len(outs) + 1
         closed == returnedClosed(foIn)
     IN  /\ outs' = Append(outs,
               [ctx |-> ctx, cancelled |-> FALSE, closed |-> closed,
                by |-> IF closed THEN "OutputContext" ELSE "none", got |-> <<>>,
                born |-> inRead, late |-> inClosed,
                closer |-> IF ctx = "ctx" /\ ~closed THEN "waiting" ELSE "none"])
         /\ foOut' = IF closed THEN foOut ELSE foOut \cup {ch}
  /\ UNCHANGED <<inClosed, inRead, foIn, foPc, foTodo, foCur, tickerVars, schedVars>>

\* (fo *FanOut) Output()
Output == OutputContext("nil")

\* (fo *FanOut) Close(ch), which begins with fo.mu.Lock() and goes on when
\* the mutex is free: ch is taken out of fo.out and closed if it is there
closeOutput(ch, by) ==
  /\ ~muHeld
  /\ foOut' = foOut \ {ch}
  /\ outs' = [outs EXCEPT
       ![ch].closed = (@ \/ ch \in foOut),
       ![ch].by = IF ch \in foOut THEN by ELSE @,
       ![ch].closer = IF by = "closeRoutine" THEN "done" ELSE @]

\* a Close(ch) call of the user, for a channel some Output call returned
Close(ch) ==
  /\ ch \in 1..Len(outs)
  /\ closeOutput(ch, "Close")
  /\ UNCHANGED <<inClosed, inRead, foIn, foPc, foTodo, foCur, tickerVars, schedVars>>

\* the context given to OutputContext for ch is cancelled
CancelOutput(ch) ==
  /\ ch \in 1..Len(outs)
  /\ outs[ch].ctx = "ctx"
  /\ ~outs[ch].cancelled
  /\ outs' = [outs EXCEPT ![ch].cancelled = TRUE]
  /\ UNCHANGED <<inClosed, inRead, foIn, foOut, foPc, foTodo, foCur, tickerVars, schedVars>>

\* (fo *FanOut) closeRoutine(ctx, ch): `<-ctx.Done()`, then fo.Close(ch)
closeRoutine(ch) ==
  /\ ch \in 1..Len(outs)
  /\ outs[ch].closer = "waiting"
  /\ outs[ch].cancelled
  /\ closeOutput(ch, "closeRoutine")
  /\ UNCHANGED <<inClosed, inRead, foIn, foPc, foTodo, foCur, tickerVars, schedVars>>

NextFanOut ==
  \/ SendIn
  \/ CloseIn
  \/ routineLock
  \/ routinePick
  \/ Recv
  \/ routineUnlock
  \/ routineRangeEnds
  \/ routineEnd
  \/ Output
  \/ OutputContext("ctx")
  \/ \E ch \in 1..MaxOutputs : Close(ch)
  \/ \E ch \in 1..MaxOutputs : CancelOutput(ch)
  \/ \E ch \in 1..MaxOutputs : closeRoutine(ch)

----------------------------------------------------------------------------
(* Specifications *)

\* the Scheduler with its goroutine, callers, consumer and clock
Init == InitSched /\ InitTicker /\ InitFan

Spec == Init /\ [][NextSched]_vars

\* the goroutine takes the steps in which it waits for nobody whenever it
\* can; the consumer, the callers and the clock need not move
FairSpec ==
  Spec /\ WF_vars(LoopEval) /\ WF_vars(LoopWake) /\ WF_vars(LoopExit)

\* the ScheduledTicker alone
InitIdle ==
  /\ InitTicker
  /\ InitSched
  /\ InitFan
  /\ provider = [kind |-> "schedule", interval |-> 0]

SpecTicker == InitIdle /\ [][NextTicker]_vars

\* the FanOut with its goroutines, producer, consumers and callers
SpecFanOut == InitIdle /\ [][NextFanOut]_vars

\* fanOutRoutine and the closeRoutines take their steps whenever they can;
\* the producer, the consumers and the callers need not move
FairFanOut ==
  /\ SpecFanOut
  /\ WF_vars(fanOutRoutine)
  /\ \A ch \in 1..MaxOutputs : WF_vars(closeRoutine(ch))

----------------------------------------------------------------------------
(* Properties of the ScheduledTicker *)

Range(xs) == {xs[i] : i \in 1..Len(xs)}

\* the values a field admits: every value of its range when it is empty
Admits(xs, all) == IF Len(xs) = 0 THEN all ELSE Range(xs)

SecondsOn(s) == Admits(s.seconds, 0..(secondsInMinute - 1))
MinutesOn(s) == Admits(s.minutes, 0..(minutesInHour - 1))
HoursOn(s) == Admits(s.hours, 0..(hoursInDay - 1))

\* the calendar day with number dn satisfies day-of-month, month and weekday
DaySatisfies(s, dn) ==
  LET c == CivilFromDays(dn)
  IN  /\ c.d \in Admits(s.days, 1..maxDaysInMonth)
      /\ c.m \in Admits(s.months, 1..monthsInYear)
      /\ ((dn + 4) % daysInWeek) \in Admits(s.weekdays, 0..(daysInWeek - 1))

\* the timestamp satisfies all six fields
Satisfies(s, at) ==
  /\ DaySatisfies(s, DayNum(at))
  /\ HourOf(at) \in HoursOn(s)
  /\ MinuteOf(at) \in MinutesOn(s)
  /\ SecondOf(at) \in SecondsOn(s)

\* the second u shows the wall clock `wall` in the location
Shows(loc, u, wall) == u + ZoneAt(loc, u).offset = wall

\* no whole second between t and r shows the wall clock `wall`
NotBetween(t, r, wall) ==
  \A off \in ZoneOffsets(t.loc) :
    ~(t.s < wall - off /\ wall - off < r.s /\ Shows(t.loc, wall - off, wall))

\* no whole second u with t < u < r satisfies all six fields
NoneBetween(s, t, r) ==
  \A dn \in DayNum(t)..DayNum(r) :
    DaySatisfies(s, dn) =>
      \A h \in HoursOn(s), m \in MinutesOn(s), sec \in SecondsOn(s) :
        NotBetween(t, r, dn * secondsInDay + h * secondsInHour + m * secondsInMinute + sec)

\* Next was called on a successfully parsed schedule and returned
NextReturned ==
  made /\ lastErr = "nil" /\ lastAt # NoTime /\ lastOut # NoTime

\* C1: whenever Next returns on a successfully parsed schedule, its result
\* satisfies every non-wildcard field of the schedule and is strictly later
\* than the argument.
C1_NextSatisfiesAndIsLater ==
  NextReturned => Satisfies(ticker, lastOut) /\ TimeAfter(lastOut, lastAt)

\* C1 witness: Next was called at a timestamp that is itself an occurrence of
\* a schedule with a day-of-month set, and returned a later day.
C1_Witness ==
  /\ NextReturned
  /\ Len(ticker.days) > 0
  /\ Satisfies(ticker, lastAt)
  /\ DayNum(lastOut) > DayNum(lastAt)

\* C2: Next returns the next occurrence: no whole second strictly between
\* the argument and the result satisfies all six fields.
C2_NextIsFirstOccurrence ==
  NextReturned => NoneBetween(ticker, lastAt, lastOut)

\* C10: after a successful parse, parsing the output of String() succeeds
\* and yields the same six field sets, hence the same String().
C10_FormatParseRoundTrip ==
  (made /\ lastErr = "nil") =>
    LET r == parse(ZeroTicker, String(ticker))
    IN  r.err = "nil" /\ r.s = ticker /\ String(r.s) = String(ticker)

\* C10 witness: a spec with unsorted lists, a suffix and names was accepted
\* and normalised.
C10_Witness ==
  /\ made /\ lastErr = "nil" /\ unmarshals = 0
  /\ ticker.seconds = <<0, 30>>
  /\ ticker.hours = <<6, 12>>
  /\ ticker.months = <<2, 9>>
  /\ ticker.weekdays = <<3>>

\* the values the part of the i-th field lists, as its parse function reads
\* the tokens between the commas
SuppliedValues(i, part) ==
  {callFn(FieldFns[i], tok).v :
     tok \in Range(Split(TrimSuffix(part, FieldSuffixes[i]), ","))}

\* what String() prints for the i-th field
PrintedField(s, i) == Split(String(s), " ")[i]

\* the i-th field, given as `part`, stored as `stored` and printed as
\* `printed`: the wildcard exactly if the list names the whole range
WholeRangeCollapsed(i, part, stored, printed) ==
  TrimSuffix(part, FieldSuffixes[i]) # <<"*">> =>
    IF SuppliedValues(i, part) = LegalValues(i)
      THEN stored = <<>> /\ printed = <<"*">> \o FieldSuffixes[i]
    ELSE stored # <<>> /\ Range(stored) = SuppliedValues(i, part)
         /\ printed # <<"*">> \o FieldSuffixes[i]

\* C11: after a successful parse, a field whose list names every legal value
\* of its range, in any order and with repetitions, is stored as the empty
\* set and printed as `*` by String(); a list that misses a legal value is
\* stored with exactly the values it names.
C11_WholeRangeIsWildcard ==
  (made /\ lastErr = "nil") =>
    \A i \in 1..Len(Split(lastText, " ")) :
      WholeRangeCollapsed(i, Split(lastText, " ")[i], ticker[FieldNames[i]],
                          PrintedField(ticker, i))

\* C11 witness: all sixty seconds were listed, from 59 down and one of them
\* twice, and the field is the wildcard.
C11_Witness ==
  /\ made /\ lastErr = "nil"
  /\ Len(Split(lastText, " ")) = 1
  /\ Len(Split(lastText, ",")) = secondsInMinute + 1
  /\ SuppliedValues(1, lastText) = LegalValues(1)
  /\ ticker.seconds = <<>>

\* C12: when both the day-of-month and the weekday field are set, whatever
\* Next returns has its day of the month in the day set and its weekday in
\* the weekday set; `0 0 0 1 jan wed` from 2020-01-01 00:00:00 yields
\* 2025-01-01 00:00:00, the next first of January that is a Wednesday.
C12_DayAndWeekday ==
  (NextReturned /\ Len(ticker.days) > 0 /\ Len(ticker.weekdays) > 0) =>
    /\ DateOf(lastOut).d \in Range(ticker.days)
    /\ WeekdayOf(lastOut) \in Range(ticker.weekdays)
    /\ (/\ String(ticker) = <<"0","s"," ","0","m"," ","0","h"," ","1","d"," ",
                               "j","a","n"," ","w","e","d">>
        /\ lastAt = TimeDate(2020, 1, 1, 0, 0, 0))
         => lastOut = TimeDate(2025, 1, 1, 0, 0, 0)

\* C12 witness: Next passed over first days of a month that were no
\* Wednesdays and Wednesdays that were no first days, five years long.
C12_Witness ==
  /\ NextReturned
  /\ ticker.days = <<1>> /\ ticker.months = <<1>> /\ ticker.weekdays = <<3>>
  /\ lastAt = TimeDate(2020, 1, 1, 0, 0, 0)
  /\ lastOut = TimeDate(2025, 1, 1, 0, 0, 0)

\* the token is a decimal number, with or without a sign
IsNumber(tok) == Atoi(tok).ok

\* the token is one of the names of a month or of a weekday
IsName(i, tok) ==
  \/ FieldNames[i] = "months"
       /\ \E v \in 1..monthsInYear : tok = MonthAbbr[v] \/ tok = MonthName[v]
  \/ FieldNames[i] = "weekdays"
       /\ \E v \in 1..daysInWeek : tok = WeekdayAbbr[v] \/ tok = WeekdayName[v]

\* the token stands for a value the i-th field admits: a number of the
\* field's range (no weekday is a number), or a name
NamesLegalValue(i, tok) ==
  \/ FieldNames[i] # "weekdays" /\ IsNumber(tok) /\ Atoi(tok).v \in LegalValues(i)
  \/ IsName(i, tok)

\* the tokens of the i-th part, between the commas and before the suffix
TokensOf(i, part) == Range(Split(TrimSuffix(part, FieldSuffixes[i]), ","))

\* the i-th part is `*` or a list of tokens that stand for admitted values
PartOfLegalValues(i, part) ==
  \/ TrimSuffix(part, FieldSuffixes[i]) = <<"*">>
  \/ \A tok \in TokensOf(i, part) : NamesLegalValue(i, tok)

\* the spec has one to six parts, each of them `*` or a list of tokens that
\* stand for admitted values
BuiltOfLegalValues(parts) ==
  /\ Len(parts) <= Len(FieldNames)
  /\ \A i \in 1..Len(parts) : PartOfLegalValues(i, parts[i])

\* NewScheduledTicker has returned
NewReturned == lastErr # "none" /\ unmarshals = 0

\* C13: NewScheduledTicker returns an error and no schedule for the empty
\* spec, for a spec of more than six parts and for a spec with a token that
\* is a number outside the range of its field, a number in the weekday field,
\* an unknown name, or not a number in a numeric field; every other spec,
\* built only from `*` and values in range, is accepted.
C13_RefusedOrAccepted ==
  NewReturned =>
    IF Len(lastText) > 0 /\ BuiltOfLegalValues(Split(lastText, " "))
      THEN lastErr = "nil" /\ made
    ELSE lastErr # "nil" /\ ~made /\ ticker = ZeroTicker

\* the errors that name a field, in the order of the fields
FieldErrors ==
  <<"timeutil: invalid second", "timeutil: invalid minute", "timeutil: invalid hour",
    "timeutil: invalid day", "timeutil: invalid month", "timeutil: invalid weekday">>

\* a parse has returned an error
ParseFailed == lastErr \notin {"none", "nil"}

ReadsAsValue(i, tok) ==
  IF FieldNames[i] = "months"
    THEN IsName(i, tok) \/ \E v \in LegalValues(i) : tok = Itoa(v)
  ELSE NamesLegalValue(i, tok)

\* the parts that hold a token their field does not read as a value
Offending(parts) ==
  {i \in 1..Len(parts) :
     /\ TrimSuffix(parts[i], FieldSuffixes[i]) # <<"*">>
     /\ \E tok \in TokensOf(i, parts[i]) : ~ReadsAsValue(i, tok)}

\* the error for the parts of a spec: the first offending field is named
NamesFirstOffending(err, parts) ==
  IF Len(parts) > Len(FieldNames) THEN err = "timeutil: invalid spec"
  ELSE /\ Offending(parts) # {}
       /\ err = FieldErrors[CHOOSE i \in Offending(parts) :
                               \A j \in Offending(parts) : i <= j]

C15_OmittedFieldsAreWildcard ==
  (made /\ lastErr = "nil") =>
    \A i \in (Len(Split(lastText, " ")) + 1)..Len(FieldNames) :
      ticker[FieldNames[i]] = <<>>

\* the slice is sorted strictly ascending, holds only values of the i-th
\* field's range, and not all of them
WellKept(i, xs) ==
  /\ \A j, k \in 1..Len(xs) : j < k => xs[j] < xs[k]
  /\ Range(xs) \subseteq LegalValues(i)
  /\ Range(xs) # LegalValues(i)

\* C16: after every successful parse each of the six field sets is sorted
\* strictly ascending (hence free of duplicates), holds only values of the
\* field's legal range, and is never the complete range, whatever the order
\* and the repetitions of the values in the text.
C16_FieldsSortedInRange ==
  (made /\ lastErr = "nil") =>
    \A i \in 1..Len(FieldNames) : WellKept(i, ticker[FieldNames[i]])

\* C16 witness: the days were given from 31 down to 2 with 31 once more and
\* are kept as 2, 3, ..., 31.
C16_Witness ==
  /\ made /\ lastErr = "nil"
  /\ Len(Split(lastText, ",")) = maxDaysInMonth
  /\ ticker.days = [k \in 1..(maxDaysInMonth - 1) |-> k + 1]

LowerLetters ==
  <<"a","b","c","d","e","f","g","h","i","j","k","l","m",
    "n","o","p","q","r","s","t","u","v","w","x","y","z">>

UpperLetters ==
  <<"A","B","C","D","E","F","G","H","I","J","K","L","M",
    "N","O","P","Q","R","S","T","U","V","W","X","Y","Z">>

\* the string with its capital letters turned into small ones
ToLower(str) ==
  [k \in 1..Len(str) |->
     IF \E l \in 1..Len(UpperLetters) : UpperLetters[l] = str[k]
       THEN LowerLetters[CHOOSE l \in 1..Len(UpperLetters) : UpperLetters[l] = str[k]]
     ELSE str[k]]

\* the i-th part is `*` or every token of it is, letter case aside, a value
\* of the field
NamedInAnyCase(i, part) ==
  \/ part = <<"*">>
  \/ \A tok \in TokensOf(i, part) : ReadsAsValue(i, ToLower(tok))

\* the values the tokens of the i-th part stand for, letter case aside
ValuesInAnyCase(i, part) ==
  IF part = <<"*">> THEN LegalValues(i)
  ELSE {callFn(FieldFns[i], ToLower(tok)).v : tok \in TokensOf(i, part)}

\* the parts of a spec of five or six parts whose first four are fine: if
\* month and weekday are values of their fields in some letter case, the
\* spec is accepted with these values; a number for the weekday is refused
NamesAccepted(parts, err, s) ==
  (Len(parts) \in {5, 6} /\ BuiltOfLegalValues(SubSeq(parts, 1, 4))) =>
    /\ (\A i \in 5..Len(parts) : NamedInAnyCase(i, parts[i])) =>
         /\ err = "nil"
         /\ \A i \in 5..Len(parts) :
              Admits(s[FieldNames[i]], LegalValues(i)) = ValuesInAnyCase(i, parts[i])
    /\ (Len(parts) = 6 /\ \E tok \in TokensOf(6, parts[6]) : IsNumber(tok)) =>
         err # "nil"

\* C17: the month field accepts the numbers 1-12, the abbreviations and the
\* full names of the months in any letter case; the weekday field accepts
\* the abbreviations and the full names in any letter case, and refuses
\* every number.
C17_NamesInAnyCase ==
  (NewReturned /\ Len(lastText) > 0) =>
    NamesAccepted(Split(lastText, " "), lastErr, ticker)

\* no calendar day of the four hundred years after which the calendar
\* repeats has a month of the month set and a day of the day set; the days
\* up to 28, which every month has, need no look at the calendar
NeverOccurs(s) ==
  /\ Len(s.days) > 0 /\ Len(s.months) > 0
  /\ \A d \in Range(s.days) : d > 28
  /\ \A y \in 2000..2399, m \in Range(s.months), d \in Range(s.days) :
       CivilFromDays(DaysFromCivil(y, m, 1) + d - 1) # [y |-> y, m |-> m, d |-> d]

\* from the candidate `at` up to the horizon every pass of the loop of Next
\* ends in `continue` and sets a later candidate
RECURSIVE KeepsSearching(_, _)
KeepsSearching(s, at) ==
  \/ DateOf(at).y > HorizonYear
  \/ /\ ~loopReturns(s, at)
     /\ TimeAfter(loopContinues(s, at), at)
     /\ KeepsSearching(s, loopContinues(s, at))

\* C18: a spec whose day set and month set never meet is accepted by
\* NewScheduledTicker, and Next on it does not return: wherever it starts,
\* every pass of its loop moves the candidate to a later timestamp that
\* fails a test again, and no value comes back.
C18_NeverSatisfiedNeverReturns ==
  /\ (NewReturned /\ lastText \in NeverTexts) =>
       lastErr = "nil" /\ made /\ NeverOccurs(ticker)
  /\ (made /\ lastErr = "nil" /\ NeverOccurs(ticker)) =>
       /\ \A at \in Times : KeepsSearching(ticker, nextSecond(ticker, at))
       /\ lastOut = NoTime

\* C18 witness: Next was called on `0 0 0 31 feb *` and was still searching
\* when the candidate left the horizon.
C18_Witness ==
  /\ made /\ lastErr = "nil"
  /\ ticker.days = <<31>> /\ ticker.months = <<2>>
  /\ lastAt \in Times
  /\ lastOut = NoTime

\* the wall clock and the offset of the timestamp: hour, minute, hours east
WallClock(at) ==
  <<HourOf(at), MinuteOf(at), ZoneAt(at.loc, at.s).offset \div secondsInHour>>

\* what the wall clock of Central Europe shows every half hour from 01:30 on
\* the night it goes back: the hour from 02:00 comes twice
FallBackNight ==
  << <<1, 30, 2>>, <<2, 0, 2>>, <<2, 30, 2>>, <<2, 0, 1>>, <<2, 30, 1>>,
     <<3, 0, 1>>, <<3, 30, 1>> >>

\* and on the night it goes forward: the hour from 02:00 does not come
SpringForwardNight ==
  << <<1, 30, 1>>, <<3, 0, 2>>, <<3, 30, 2>>, <<4, 0, 2>>, <<4, 30, 2>>,
     <<0, 0, 2>>, <<0, 30, 2>> >>

\* the results of the calls in a row are the first entries of `night`
FollowsNight(row, night) ==
  \A k \in 2..Len(row) : k - 1 <= Len(night) /\ WallClock(row[k]) = night[k - 1]

\* each result of the calls in a row is a later instant than the one before
\* and satisfies the schedule on the wall clock of its location
RowAdvances(s, row) ==
  \A k \in 2..Len(row) :
    /\ row[k] # NoTime
    /\ row[k].loc = row[1].loc
    /\ TimeAfter(row[k], row[k - 1])
    /\ Satisfies(s, row[k])
    /\ NoneBetween(s, row[k - 1], row[k])

\* C19: Next called again and again for `0 0,30 0,1,2,3,4 * * *` across a
\* clock change of Central Europe yields strictly later instants that each
\* satisfy the schedule on the wall clock, with no occurrence left out: on
\* the night the clock goes back 02:00 and 02:30 come at the old offset and
\* then again at the new one, on the night it goes forward the hour from
\* 02:00 is not produced.
C19_AcrossClockChange ==
  (made /\ lastErr = "nil" /\ lastText = SummerTimeText /\ Len(chain) > 0
   /\ chain[1] \in SummerTimes) =>
    /\ RowAdvances(ticker, chain)
    /\ chain[1] = BeforeFallBack => FollowsNight(chain, FallBackNight)
    /\ chain[1] = BeforeSpringForward => FollowsNight(chain, SpringForwardNight)

\* C19 witness: five calls from 2020-10-25 01:00 CEST on, the last result
\* 02:30 CET, an hour after the 02:30 CEST of the third.
C19_Witness ==
  /\ lastText = SummerTimeText
  /\ Len(chain) = 6
  /\ chain[1] = BeforeFallBack
  /\ WallClock(chain[4]) = <<2, 30, 2>>
  /\ WallClock(chain[6]) = <<2, 30, 1>>
  /\ chain[6].s = chain[4].s + secondsInHour

\* from the candidate `at` on, every pass of the loop of Next that ends in
\* `continue` sets a later candidate, until a pass returns (or the candidate
\* leaves the horizon)
RECURSIVE Advances(_, _)
Advances(s, at) ==
  \/ DateOf(at).y > HorizonYear
  \/ loopReturns(s, at)
  \/ /\ TimeAfter(loopContinues(s, at), at)
     /\ Advances(s, loopContinues(s, at))

\* the last day of the horizon
HorizonDay == DaysFromCivil(HorizonYear, 12, 31)

\* a day after the day of `at` and within the horizon satisfies the month,
\* day and weekday sets
OccursByHorizon(s, at) ==
  \E dn \in (DayNum(at) + 1)..HorizonDay : DaySatisfies(s, dn)

\* C28: on a schedule whose month, day and weekday sets meet on some
\* calendar date, a call of Next returns: every pass of its loop moves the
\* candidate to a later timestamp and one of them finds all fields matching.
\* (The search of the model ends at the horizon: it ends there without a
\* result only when no day up to the horizon satisfies the three sets.)
C28_SatisfiableNextReturns ==
  (made /\ lastErr = "nil" /\ lastAt # NoTime /\ ~NeverOccurs(ticker)) =>
    /\ Advances(ticker, nextSecond(ticker, lastAt))
    /\ lastOut = NoTime => ~OccursByHorizon(ticker, lastAt)
    /\ lastOut # NoTime => loopReturns(ticker, lastOut)

\* C28 witness: Next was called on the 1st of January 2020, a Wednesday, on
\* a schedule of the Wednesdays that are a 1st of January, and came back
\* with the next one, five years of passes later.
C28_Witness ==
  /\ made /\ lastErr = "nil"
  /\ ticker.days = <<1>> /\ ticker.months = <<1>> /\ ticker.weekdays = <<3>>
  /\ lastAt = TimeDate(2020, 1, 1, 0, 0, 0)
  /\ lastOut = TimeDate(2025, 1, 1, 0, 0, 0)

\* C30: the six field sets change only in a parse that succeeds: a step
\* that is no parse (a call of Next) leaves them as they are, and so does a
\* NewScheduledTicker, UnmarshalText or UnmarshalJSON that returns an error.
C30_FieldsChangeOnlyOnSuccess ==
  [][/\ (made' = made /\ unmarshals' = unmarshals) => ticker' = ticker
     /\ lastErr' # "nil" => ticker' = ticker]_vars

----------------------------------------------------------------------------
(* Properties of the Scheduler *)

\* the ticks the goroutine sent and the consumer received, in order
RECURSIVE LoopTicks(_)
LoopTicks(rs) ==
  IF Len(rs) = 0 THEN <<>>
  ELSE IF Head(rs).src = "loop" THEN <<Head(rs).t>> \o LoopTicks(Tail(rs))
  ELSE LoopTicks(Tail(rs))

Computing == provider.kind \in {"interval", "schedule"}

\* C3: with a computing provider (Schedule or Fixed-Interval) the ticks the
\* loop delivers are Next(start time), Next(first tick), Next(second tick),
\* ... each once and in this order: the first Next is seeded with the clock,
\* every later Next with the tick just delivered, and no tick is computed
\* that is not the successor of a delivered one.
C3_DeliversEveryOccurrence ==
  Computing =>
    LET ticks == LoopTicks(received)
    IN  /\ Len(seeds) \in {Len(ticks), Len(ticks) + 1}
        /\ \A k \in 1..Len(ticks) : ticks[k] = ProviderNext(provider, seeds[k])
        /\ \A k \in 2..Len(seeds) : seeds[k] = ticks[k - 1]
        /\ (pc \in {"eval", "sleep", "sleepMax", "send"} /\ launched = 1) =>
             n = ProviderNext(provider, seeds[Len(seeds)])

\* C3 witness: the consumer was late by more than one interval and still
\* received two consecutive occurrences, the second already in the past.
C3_Witness ==
  /\ Computing
  /\ Len(LoopTicks(received)) = 2
  /\ received[2].src = "loop"
  /\ received[2].t = ProviderNext(provider, received[1].t)
  /\ received[2].t > received[1].t
  /\ now > received[2].t + 1

\* C4: once the context is cancelled while the loop is blocked in the send
\* on the tick channel, the loop terminates and the channel is closed, with
\* no receive by the consumer needed.
C4_CancelEndsBlockedSend ==
  (cancelled /\ pc = "send") ~> chClosed

\* the context is cancelled and the loop is in a sleep whose timer did not
\* fire before the cancellation, or is about to evaluate the wait
CancelledBeforeWake ==
  /\ cancelled
  /\ \/ pc \in {"sleep", "sleepMax"} /\ wake = "ctx"
     \/ pc = "eval"

\* C5: if the context is cancelled while the loop sleeps on a timer that has
\* not expired (ceiling or remainder), or is cancelled already when the wait
\* is evaluated, the sleep reports the cancellation: the loop can always go
\* on by itself, goes nowhere but to its exit, hands no tick to the consumer
\* on the way, and leaves the exit only by closing the channel.
C5_CancelledSleepExits ==
  /\ []((CancelledBeforeWake \/ pc = "exit") => ENABLED LoopStep)
  /\ [][CancelledBeforeWake =>
          /\ pc' \in {pc, "exit"}
          /\ LoopTicks(received') = LoopTicks(received)]_vars
  /\ [][pc = "exit" =>
          /\ pc' \in {"exit", "done"}
          /\ LoopTicks(received') = LoopTicks(received)
          /\ (pc' = "done" => chClosed')]_vars

\* C5 witness: the loop was woken from a sleep by the cancellation with its
\* tick pending, and the channel got closed with that tick undelivered.
C5_Witness ==
  /\ chClosed
  /\ pc = "done"
  /\ Len(seeds) = Len(LoopTicks(received)) + 1
  /\ n > now

\* C6: the tick channel is closed only if a context was stored by Start and
\* has been cancelled, and it is closed at most once.
C6_ClosedOnlyOnCancelOnce ==
  /\ chClosed => (sctx = "ctx" /\ cancelled)
  /\ closes <= 1
  /\ chClosed <=> closes = 1

\* C6 witness: the channel has been closed.
C6_Witness == chClosed /\ closes = 1 /\ cancelled /\ pc = "done"

\* C7: at most one Start call stores a context and launches the loop; a
\* Start on a started Scheduler panics, Start(nil) panics, and a panicking
\* Start leaves the Scheduler as it was (unstarted after Start(nil)).
C7_StartOnce ==
  /\ [](/\ launched <= 1
        /\ launched = 0 <=> sctx = "nil"
        /\ launched = 0 <=> pc = "idle"
        /\ lastStart.out = "ok" <=>
             (lastStart # NoStart /\ ~lastStart.started /\ ~lastStart.nilctx)
        /\ lastStart.out = "ok" => launched = 1
        /\ (lastStart.started /\ lastStart # NoStart) =>
             lastStart.out = "panic: scheduler is already started")
  /\ [][\A nilctx \in BOOLEAN :
          (Start(nilctx) /\ lastStart'.out # "ok") =>
            UNCHANGED <<sctx, pc, launched, n, chClosed, cancelled>>]_vars

\* C7 witness: Start was called on a Scheduler that was already started.
C7_Witness ==
  /\ lastStart.started
  /\ ~lastStart.nilctx
  /\ lastStart.out = "panic: scheduler is already started"
  /\ launched = 1

\* C8: a Tick/TickAt call made before Start or after the cancellation of the
\* context panics, and its timestamp never reaches the tick channel.
C8_TickAtRefused ==
  \A i \in 1..Len(tickAts) :
    (~tickAts[i].started \/ tickAts[i].cancelled) =>
      /\ tickAts[i].st = "panic"
      /\ \A k \in 1..Len(received) :
           ~(received[k].src = "tickAt" /\ received[k].id = i)

\* C8 witness: TickAt was called on a started Scheduler after the
\* cancellation, while the channel was still open, and panicked.
C8_Witness ==
  \E i \in 1..Len(tickAts) :
    /\ tickAts[i].started
    /\ tickAts[i].cancelled
    /\ tickAts[i].st = "panic"
    /\ ~chClosed

\* Next for tick k+1 is called only after tick k was received
NextAfterReceive == Len(seeds) <= Len(LoopTicks(received)) + 1

NonDecreasing(ts) == \A i, j \in 1..Len(ts) : i < j => ts[i] <= ts[j]

\* C9 as claimed: what is received from the tick channel is in non-decreasing
\* order, and Next for tick k+1 is called only after tick k was received,
\* for every provider and with Tick/TickAt calls.
C9_ReceivedInOrder ==
  /\ NonDecreasing([k \in 1..Len(received) |-> received[k].t])
  /\ NextAfterReceive

\* C9 as amended: the ticks the loop itself sends are received in
\* non-decreasing order when the provider is Schedule-driven or a
\* Fixed-Interval with an interval that is not negative; and for every
\* provider, with Tick/TickAt calls, Next for tick k+1 is called only after
\* tick k was received.
C9_LoopTicksInOrder ==
  /\ (provider.kind = "schedule" \/ (provider.kind = "interval" /\ provider.interval >= 0))
       => NonDecreasing(LoopTicks(received))
  /\ NextAfterReceive

\* C9 witness: a TickAt timestamp older than a tick of the loop was received
\* after it, and the loop is sending its next tick, which is not older.
C9_Witness ==
  /\ Computing
  /\ provider.interval >= 0
  /\ Len(received) >= 2
  /\ received[1].src = "loop"
  /\ received[2].src = "tickAt"
  /\ received[2].t < received[1].t
  /\ pc = "send"
  /\ n >= received[1].t

\* the identities of the ManualTicker calls in a set or sequence of them
CallIds(ms) == {m.id : m \in ms}

\* C20: with a ManualTicker as the provider of the one Scheduler that runs,
\* a ManualTicker.Tick/TickAt call returns only when the loop's Next has
\* taken its timestamp, each call is taken at most once, and the loop's ticks
\* on the tick channel are the timestamps of the calls that returned, each
\* once and in the order the calls returned: none is emitted that was not
\* supplied, and while the context is not cancelled none is lost: the one
\* taken and not yet received is the pending tick of the loop.
C20_ManualTicksInOrder ==
  provider.kind = "manual" =>
    /\ launched <= 1
    /\ CallIds(manualQ) \cup CallIds(Range(taken)) = 1..manualCalls
    /\ CallIds(manualQ) \cap CallIds(Range(taken)) = {}
    /\ Cardinality(CallIds(Range(taken))) = Len(taken)
    /\ Len(taken) = Len(seeds)
    /\ Len(taken) - Len(LoopTicks(received)) \in {0, 1}
    /\ \A k \in 1..Len(LoopTicks(received)) : LoopTicks(received)[k] = taken[k].t
    /\ (~cancelled /\ Len(taken) > Len(LoopTicks(received))) =>
         /\ pc \in {"eval", "sleep", "sleepMax", "send"}
         /\ n = taken[Len(taken)].t

\* C20 witness: two calls returned, the second with the older timestamp,
\* and both timestamps were received in the order the calls returned.
C20_Witness ==
  /\ provider.kind = "manual"
  /\ Len(taken) = 2
  /\ taken[1].t > taken[2].t
  /\ LoopTicks(received) = <<taken[1].t, taken[2].t>>

\* C21: if the context is cancelled while the loop waits in the Next of a
\* Manual provider and no caller of ManualTicker.Tick/TickAt is waiting, the
\* loop ends and closes the tick channel, unless a further call comes.
C21_CancelEndsManualWait ==
  (provider.kind = "manual" /\ cancelled /\ pc \in {"first", "after"} /\ manualQ = {})
    ~> (chClosed \/ manualQ # {})

\* C23: no Tick/TickAt call sends on the tick channel once the loop has
\* closed it: every call panicked as not started, waits in its send, or has
\* handed its timestamp to a receiver.
C23_TickAtNeverSendsOnClosed ==
  \A i \in 1..Len(tickAts) : tickAts[i].st \in {"panic", "blocked", "sent"}

\* C29: whenever the loop is in the send of tick n on the tick channel, the
\* clock has reached n, whichever provider n came from.
C29_NoTickBeforeItsTime ==
  pc = "send" => n <= now

\* C29 witness: a timestamp ahead of the clock came through the
\* ManualTicker, the loop slept on it and is sending it now that the clock
\* has passed it.
C29_Witness ==
  /\ provider.kind = "manual"
  /\ pc = "send"
  /\ Len(taken) = 1
  /\ n = taken[1].t
  /\ n > StartClock
  /\ advances > 0
  /\ now >= n

Forward ==
  provider.kind = "schedule" \/ (provider.kind = "interval" /\ provider.interval > 0)

\* C27: with a provider that computes forward, a pending tick that is due
\* or overdue is sent without a sleep (unless the context is cancelled), and
\* the ticks of the loop are consecutive occurrences: each is the Next of
\* the one before and later than it, and the pending tick is the Next of the
\* last one received.  So the occurrences that fell due while the consumer
\* was away come one after the other, oldest first and none left out, ahead
\* of every tick that is not yet due.
C27_CatchUpBurst ==
  /\ [][(Forward /\ pc = "eval" /\ pc' # "eval" /\ n <= now) =>
          /\ pc' = IF cancelled THEN "exit" ELSE "send"
          /\ UNCHANGED <<n, deadline, now>>]_vars
  /\ [](Forward =>
          LET ticks == LoopTicks(received)
          IN  /\ \A k \in 2..Len(ticks) :
                   /\ ticks[k] = ProviderNext(provider, ticks[k - 1])
                   /\ ticks[k] > ticks[k - 1]
              /\ (Len(ticks) > 0 /\ pc \in {"eval", "sleep", "sleepMax", "send"}) =>
                   /\ n = ProviderNext(provider, ticks[Len(ticks)])
                   /\ n > ticks[Len(ticks)])

\* C27 witness: the consumer came back a quarter of an hour late and has
\* received two overdue ticks one second apart; the loop, the clock not
\* having moved since, is sending the third, overdue as well.
C27_Witness ==
  /\ Forward
  /\ advances = 1
  /\ now = StartClock + scheduleMaxSleepTime
  /\ LoopTicks(received) = <<StartClock + 1, StartClock + 2>>
  /\ pc = "send"
  /\ n = StartClock + 3
  /\ n < now

\* the Tick/TickAt calls that found the Scheduler started and not cancelled
Admitted == {i \in 1..Len(tickAts) : tickAts[i].st # "panic"}

\* the places in what the consumer received that hold the timestamp of call i
ReceivedOf(i) ==
  {k \in 1..Len(received) : received[k].src = "tickAt" /\ received[k].id = i}

\* C22 as claimed: a Tick/TickAt call returns only after the loop's Next has
\* taken its timestamp through the Manual provider, and the loop, not the
\* caller, sends it on the tick channel.
C22_LoopConsumesTickAt ==
  \A i \in 1..Len(tickAts) :
    tickAts[i].st = "sent" =>
      /\ provider.kind = "manual"
      /\ \E k \in 1..Len(taken) : taken[k].t = tickAts[i].t
      /\ \E k \in 1..Len(received) :
           received[k].src = "loop" /\ received[k].t = tickAts[i].t

\* C22 as amended: a Tick/TickAt call on a started, uncancelled Scheduler
\* sends its timestamp on the tick channel itself and blocks until a receiver
\* of the channel takes it (or the loop closes the channel); the timestamp
\* is received exactly once, the same instant read in the timezone of the
\* Scheduler, by the step in which the call returns, and that step leaves
\* the loop and its provider as they were, whichever provider it is.
C22_TickAtHandsOverItself ==
  /\ [](\A i \in Admitted :
          /\ tickAts[i].st \in {"blocked", "sent", "panicClosed"}
          /\ Cardinality(ReceivedOf(i)) = IF tickAts[i].st = "sent" THEN 1 ELSE 0
          /\ \A k \in ReceivedOf(i) :
               /\ received[k].t = tickAts[i].t
               /\ received[k].loc = SchedulerTz)
  /\ [][\A i \in 1..Len(tickAts) :
          (tickAts[i].st = "blocked" /\ tickAts'[i].st = "sent") =>
            /\ received' = Append(received, received'[Len(received) + 1])
            /\ ReceivedOf(i)' = {Len(received) + 1}
            /\ UNCHANGED <<pc, n, seeds, taken, manualQ, chClosed>>]_vars

\* C22 witness: with a Manual provider whose Next nobody has served, so
\* that the loop has taken nothing, a TickAt call given a timestamp of
\* another location has returned and the consumer holds the timestamp, in
\* the timezone of the Scheduler.
C22_Witness ==
  /\ provider.kind = "manual"
  /\ pc = "first"
  /\ taken = <<>>
  /\ \E i \in Admitted :
       /\ tickAts[i].st = "sent"
       /\ tickAts[i].loc # SchedulerTz
       /\ received = <<[src |-> "tickAt", id |-> i, t |-> tickAts[i].t,
                        loc |-> SchedulerTz]>>

----------------------------------------------------------------------------
(* Properties of the FanOut *)

\* the values fanOutRoutine has received from the input and sent to every
\* key of fo.out
Distributed == IF foPc \in {"lock", "send"} THEN inRead - 1 ELSE inRead

\* the output was not closed by Close or by its context
KeptOpen(i) == outs[i].by \in {"none", "fanOutRoutine"}

\* an output obtained before the k-th value was read from the input, and not
\* closed by Close or by its context, has received the k-th value once
\* fanOutRoutine has distributed it
ReceivesEvery(i) ==
  KeptOpen(i) =>
    \A k \in (outs[i].born + 1)..Distributed : k \in Range(outs[i].got)

\* what an output has received is a stretch of the input, in the order of
\* the input, nothing left out and nothing twice, beginning no earlier than
\* the value in hand when the output was obtained
InInputOrder(i) ==
  LET got == outs[i].got
  IN  /\ \A j \in 1..Len(got) : got[j] = got[1] + j - 1
      /\ Len(got) > 0 => (got[1] >= 1 /\ got[1] \in {outs[i].born, outs[i].born + 1})

\* what holds of the broadcast whenever the outputs are asked for
FanOutBroadcasts ==
  \A i \in 1..Len(outs) :
    /\ ReceivesEvery(i)
    /\ InInputOrder(i)
    /\ foPc = "done" => outs[i].closed

\* C24: every output obtained before a value is read from the input
\* receives the value; each output receives values of the input in input
\* order, none lost and none twice; all outputs are closed once
\* fanOutRoutine has seen the input closed; and an output requested after
\* the input was closed is returned closed.
C24_Broadcast ==
  /\ FanOutBroadcasts
  /\ \A i \in 1..Len(outs) : outs[i].late => outs[i].by = "OutputContext"

\* the i-th output was made and the context given for it is cancelled
ContextCancelled(i) == i <= Len(outs) /\ outs[i].cancelled

\* the i-th output was made and is closed
OutputClosed(i) == i <= Len(outs) /\ outs[i].closed

\* C25: an output made with OutputContext(ctx) is closed in the end once ctx
\* is cancelled, whatever fanOutRoutine and the consumers are doing, and a
\* closed output is no key of fo.out any more, so that no send waits for it.
C25_CancelledOutputCloses ==
  /\ \A i \in 1..MaxOutputs : ContextCancelled(i) ~> OutputClosed(i)
  /\ [](\A i \in 1..Len(outs) : outs[i].closed => i \notin foOut)

====
